---- MODULE Spec2Model ----
(***************************************************************************)
(* Exam simulator page (src/src/pages/ExamSimulatorPage.tsx): the React    *)
(* component state, its effects (pre-sampling, 1-second timer), its event  *)
(* handlers and the asynchronous saveQuizResult call of finishExam.        *)
(*                                                                         *)
(* A render and the effects React runs after it are part of the action     *)
(* that changed the state.  The interval callback keeps the closure of the *)
(* render in which the timer effect ran (deps [phase, startTime]).         *)
(*                                                                         *)
(* Beside it, each with a specification of its own: the LanguageProvider   *)
(* (src/unnamed/part_000), the score computation, and of                   *)
(* src/src/pages/AuthPage.tsx the login, register and password-reset forms *)
(* of AuthPage and the quiz votes, the feed and the comments of            *)
(* CommunityPage.                                                          *)
(***************************************************************************)
EXTENDS Integers, Sequences, FiniteSets, TLC

\* ---- program constants (ExamSimulatorPage.tsx:22-24) ----
EXAM_QUESTIONS == 30
EXAM_TIME == 30 * 60
MAX_ERRORS == 3

\* ---- bounds of the model ----
\* largest question pool of the exam specification
MaxPool == 2
\* sessions (start + restarts) per mounted page
MaxSessions == 2
\* finishExam calls per mounted page
MaxCalls == 2
\* last wall-clock instant (ms since mount)
MaxNow == 1800500
\* largest pool of the sampling specification
MaxBigPool == 32
\* largest pool of the grading specification
MaxGradePool == 4
\* last wall-clock instant of the overtime specification
MaxLate == 1801750

\* wall-clock advances between two events (ms); each is at least one
\* timer period, so a tick is due after any of them
TimeJumps == {900250}
\* advances after the time limit has passed (ticks dropped, save not back)
LateJumps == {1250}

Min(a, b) == IF a < b THEN a ELSE b
Max(a, b) == IF a > b THEN a ELSE b

\* ---- questions and pools (store state, Question of @/db/database) ----
Question(i) == [id |-> i, isTrue |-> (i % 2 = 1)]
Pool(n) == [i \in 1..n |-> Question(i)]
Pools == {Pool(n) : n \in 0..MaxPool}
\* pools with more questions than errors allowed, for the grading specification
GradePools == {Pool(n) : n \in (MAX_ERRORS + 1)..MaxGradePool}
\* pools around the session size, for the sampling specification
BigPools == {Pool(n) : n \in (0..MaxPool) \cup ((EXAM_QUESTIONS - 1)..MaxBigPool)}

\* ---- sampling: [...questions].sort(() => Math.random() - 0.5).slice(0, EXAM_QUESTIONS) ----
\* variant: every slot drawn independently (sampling with replacement)
RotateWithReplacement(s, k) == [i \in 1..Len(s) |-> s[((i * k) % Len(s)) + 1]]

Rotate(s, k) == [i \in 1..Len(s) |-> s[((i + k - 1) % Len(s)) + 1]]

\* sort() with a random comparator only permutes the copy; the outcomes
\* enumerated are the rotations of the array
Shuffles(s) ==
  IF Len(s) = 0 THEN {<<>>}
  ELSE {Rotate(s, k) : k \in 0..(Len(s) - 1)}

\* variant: the end index taken as inclusive
SliceInclusive(s, a, b) == SubSeq(s, a + 1, Min(b + 1, Len(s)))

\* Array.prototype.slice(a, b) for 0 <= a <= b
Slice(s, a, b) == SubSeq(s, a + 1, Min(b, Len(s)))

Samples(qs) == {Slice(p, 0, EXAM_QUESTIONS) : p \in Shuffles(qs)}

\* ---- answers: Record<number, boolean>, keys are 0-based positions ----
EmptyAnswers == [i \in {} |-> TRUE]
Answered(ans, i) == i \in DOMAIN ans
\* variant: a repeated answer stored under a further key
SetAnswerAppending(ans, i, val) ==
  LET k == IF i \in DOMAIN ans THEN i + Cardinality(DOMAIN ans) ELSE i
  IN [j \in (DOMAIN ans) \cup {k} |-> IF j = k THEN val ELSE ans[j]]

SetAnswer(ans, i, val) ==
  [j \in (DOMAIN ans) \cup {i} |-> IF j = i THEN val ELSE ans[j]]

\* variant: correctness taken from the defaulted userAnswer
AnsweredListFromDefault(qs, ans) ==
  [i \in 1..Len(qs) |->
     [questionId |-> qs[i].id,
      userAnswer |-> IF Answered(ans, i - 1) THEN ans[i - 1] ELSE FALSE,
      correct    |-> (IF Answered(ans, i - 1) THEN ans[i - 1] ELSE FALSE) = qs[i].isTrue]]

\* ---- finishExam's computation (lines 68-79) ----
AnsweredList(qs, ans) ==
  [i \in 1..Len(qs) |->
     [questionId |-> qs[i].id,
      userAnswer |-> IF Answered(ans, i - 1) THEN ans[i - 1] ELSE FALSE,
      correct    |-> Answered(ans, i - 1) /\ ans[i - 1] = qs[i].isTrue]]

CountCorrect(list) == Cardinality({i \in 1..Len(list) : list[i].correct})

\* variant: the percentage truncated
ScoreTruncated(c, n) == IF n = 0 THEN -1 ELSE (100 * c) \div n

\* Math.round((c / n) * 100); -1 stands for NaN (n = 0)
Score(c, n) == IF n = 0 THEN -1 ELSE (200 * c + n) \div (2 * n)

Seconds(ms) == ms \div 1000

\* variant: the totals and the answer list taken over the answered questions only
QuizResultOfAnswered(qs, ans, st, t) ==
  LET all  == AnsweredList(qs, ans)
      list == SelectSeq(all, LAMBDA a : \E i \in DOMAIN ans : qs[i + 1].id = a.questionId)
      c    == CountCorrect(list)
  IN [topicId        |-> "exam-simulator",
      lessonId       |-> "",
      score          |-> Score(c, Len(qs)),
      totalQuestions |-> Len(list),
      correctAnswers |-> c,
      wrongAnswers   |-> Len(qs) - c,
      timeSpent      |-> Seconds(t - st),
      answers        |-> list]

QuizResultOf(qs, ans, st, t) ==
  LET list == AnsweredList(qs, ans)
      c    == CountCorrect(list)
  IN [topicId        |-> "exam-simulator",
      lessonId       |-> "",
      score          |-> Score(c, Len(qs)),
      totalQuestions |-> Len(qs),
      correctAnswers |-> c,
      wrongAnswers   |-> Len(qs) - c,
      timeSpent      |-> Seconds(t - st),
      answers        |-> list]

\* ---- LanguageProvider (src/unnamed/part_000) ----
\* a value that may be missing (null / undefined): <<>> or <<value>>
None == <<>>
Some(x) == <<x>>

UILanguages == {"ar", "it"}
ContentModes == {"ar", "it", "both"}

\* what the three localStorage keys may hold when the provider mounts
StoredUI == {None, Some("ar"), Some("it"), Some("en")}
StoredContent == {None, Some("ar"), Some("it"), Some("both"), Some("all")}
StoredSmart == {None, Some("true"), Some("false")}
Storages == [ui : StoredUI, content : StoredContent, smart : StoredSmart]

\* the userSettings prop: missing, or a record whose fields may be missing
NoSettings == [present |-> FALSE, uiLanguage |-> None, contentMode |-> None,
               smartLearning |-> None]
UserSettings ==
  {NoSettings} \cup
  [present : {TRUE},
   uiLanguage : {None} \cup {Some(l) : l \in UILanguages},
   contentMode : {None} \cup {Some(m) : m \in ContentModes},
   smartLearning : {None} \cup {Some(b) : b \in BOOLEAN}]

\* primary subtags of navigator.language ("" when it is missing)
BrowserLanguages == {"", "ar", "en", "it"}

\* lines 43-47
detectBrowserLanguage(bl) == IF bl = "ar" THEN "ar" ELSE "it"

\* lines 87-92
InitialUILang(us, st, bl) ==
  IF us.uiLanguage # None THEN us.uiLanguage[1]
  ELSE IF st.ui \in {Some("ar"), Some("it")} THEN st.ui[1]
  ELSE detectBrowserLanguage(bl)

\* lines 94-99
InitialContentMode(us, st) ==
  IF us.contentMode # None THEN us.contentMode[1]
  ELSE IF st.content \in {Some("ar"), Some("it"), Some("both")} THEN st.content[1]
  ELSE "both"

\* lines 101-104
InitialSmartLearning(us, st) ==
  IF us.smartLearning # None THEN us.smartLearning[1]
  ELSE st.smart = Some("true")

\* String(enabled), line 137
BoolString(b) == IF b THEN "true" ELSE "false"

Block(text, l, secondary) == [text |-> text, lang |-> l, secondary |-> secondary]

\* variant: in mode 'both' the Italian block always comes first
resolveContentItalianFirst(ui, mode, ar, it) ==
  IF mode = "ar" THEN <<Block(ar, "ar", FALSE)>>
  ELSE IF mode = "it" THEN <<Block(it, "it", FALSE)>>
  ELSE <<Block(it, "it", FALSE), Block(ar, "ar", TRUE)>>

\* lines 150-166, with the uiLang and contentMode of the render
resolveContent(ui, mode, ar, it) ==
  IF mode = "ar" THEN <<Block(ar, "ar", FALSE)>>
  ELSE IF mode = "it" THEN <<Block(it, "it", FALSE)>>
  ELSE IF ui = "it" THEN <<Block(it, "it", FALSE), Block(ar, "ar", TRUE)>>
  ELSE <<Block(ar, "ar", FALSE), Block(it, "it", TRUE)>>

\* the texts handed to resolveContent
ArTexts == {"ar:stop", "ar:yield"}
ItTexts == {"it:stop", "it:yield"}

\* ---- AuthPage: the inputs of the forms ----
\* AuthPage.tsx lines 47, 73: the shortest password accepted
MIN_PASSWORD == 6
\* store calls of one page that the model follows
MaxRequests == 2

Emails == {"", "a@b.it"}
Passwords == {"", "12345", "123456"}
\* names are typed character by character: trim() has something to remove
Names == {<<>>, <<" ">>, <<" ", "B", " ">>}
\* line 64: String(Math.floor(100000 + Math.random() * 900000))
Codes == {"100000", "999999"}
CodeInputs == {""} \cup Codes

RECURSIVE TrimLeft(_)
TrimLeft(s) == IF s # <<>> /\ Head(s) = " " THEN TrimLeft(Tail(s)) ELSE s
RECURSIVE TrimRight(_)
TrimRight(s) ==
  IF s # <<>> /\ s[Len(s)] = " " THEN TrimRight(SubSeq(s, 1, Len(s) - 1)) ELSE s
\* String.prototype.trim
trim(s) == TrimRight(TrimLeft(s))

\* line 49
fullName(first, last) == trim(first) \o <<" ">> \o trim(last)

VARIABLES
  dbPool,         \* the question pool loadQuestions() reads
  questions,      \* store: questions
  examQuestions,  \* useState: sampled session
  currentIndex,   \* useState: cursor
  answers,        \* useState: answer map
  phase,          \* useState: 'intro' | 'exam' | 'review' | 'result'
  startTime,      \* useState: Date.now() at start
  elapsed,        \* useState: seconds, set by the tick
  now,            \* wall clock (ms)
  timer,          \* the interval of the timer effect and its closure
  tickDue,        \* a timer period has passed since the last tick
  pending,        \* number of finishExam calls awaiting saveQuizResult
  handed,         \* number of results handed to saveQuizResult in this session
  saved,          \* the last of them, <<>> if none
  session,        \* number of start() calls
  calls,          \* number of finishExam calls
  mounted         \* the component is mounted

\* LanguageProvider: a record of
\*   uiLang         useState: 'ar' | 'it'
\*   contentMode    useState: 'ar' | 'it' | 'both'
\*   smartLearning  useState: boolean
\*   storage        localStorage: the three ph_* keys
\*   notified       the last argument of onSettingsChange, <<>> if none
\*   blocks         the last resolveContent call and its result, <<>> if none
VARIABLES
  lang

\* the score computation taken alone
VARIABLES
  grading         \* correctCount, total and the scores computed from them

\* AuthPage: a record of
\*   mode             prop: 'login' | 'register' | 'reset-password'
\*   email .. lastName, resetCode .. confirmNewPassword   useState: the fields
\*   resetStep        useState: 'email' | 'code' | 'newpass' | 'done'
\*   generatedCode    useState: the code of the reset flow
\*   localError       useState: '' or the message of the failed check
\*   requests         the calls of login, register and resetPassword of the
\*                    store, each pending until the store returns
\*   dashboard        number of onNavigate('dashboard') calls
VARIABLES
  auth

\* CommunityPage: the quiz votes, the feed and the comments of one post
\*   quiz: quizVoted, quizSelected   useState (posts as a set, answers as a map)
\*         stored    localStorage quizVotes_<user.id>, <<>> if absent
\*         stats     the quizStats of each post in the database
\*         tasks     the handleQuizAnswer calls past their first await
\*         before, first   the stats at mount and the first answer clicked
\*                         for each post (for the properties)
\*   feed: posts       store: the posts as loadPosts left them
\*         user        store: the id of the logged-in user, <<>> if none
\*         following   useState: the ids followed
\*         activeTab   useState: 'discover' | 'following'
\*   thread: comments    useState: the comments of the open post, each with
\*                       its id, its content and, for the properties, the
\*                       parent and text handleReply made it from
\*           replyingTo  useState: the id of the comment replied to, <<>> if none
VARIABLES
  quiz, feed, thread

examVars == <<dbPool, questions, examQuestions, currentIndex, answers, phase,
              startTime, elapsed, now, timer, tickDue, pending, handed,
              saved, session, calls, mounted>>
pageVars == <<auth, quiz, feed, thread>>
vars == <<examVars, lang, grading, pageVars>>

\* what a step of one part leaves alone
nonExamVars == <<lang, grading, pageVars>>
nonLangVars == <<examVars, grading, pageVars>>
nonScoreVars == <<examVars, lang, pageVars>>
nonAuthVars == <<examVars, lang, grading, quiz, feed, thread>>
nonQuizVars == <<examVars, lang, grading, auth, feed, thread>>
nonFeedVars == <<examVars, lang, grading, auth, quiz, thread>>
nonThreadVars == <<examVars, lang, grading, auth, quiz, feed>>

NoTimer == [active |-> FALSE, examQuestions |-> <<>>,
            answers |-> EmptyAnswers, startTime |-> 0]

\* ---- render conditions ----
\* variant: the empty state looked at only after the intro view
EmptyStateAfterIntro ==
  Len(examQuestions) = 0 /\ Len(questions) = 0 /\ phase # "intro"

\* line 88: the empty state is rendered before any phase is looked at
EmptyState == Len(examQuestions) = 0 /\ Len(questions) = 0
\* lines 291-292: the exam view needs a current question
HasCurrent == currentIndex >= 0 /\ currentIndex < Len(examQuestions)
ExamView == mounted /\ ~EmptyState /\ phase = "exam" /\ HasCurrent

\* ---- derived values (lines 84, 86) ----
answeredCount == Cardinality(DOMAIN answers)
remaining == Max(0, EXAM_TIME - elapsed)

\* ---- result view (lines 152-160) ----
ResultRows(qs, ans) ==
  [i \in 1..Len(qs) |->
     [question |-> qs[i],
      correct  |-> Answered(ans, i - 1) /\ ans[i - 1] = qs[i].isTrue]]
ShownCorrect == Cardinality({i \in 1..Len(examQuestions) :
                               ResultRows(examQuestions, answers)[i].correct})
ShownErrors == Cardinality({i \in 1..Len(examQuestions) :
                              ~ResultRows(examQuestions, answers)[i].correct})
ShownUnanswered == Len(examQuestions) - answeredCount
\* variant: strict comparison
ShownPassedStrict == ShownErrors < MAX_ERRORS

\* line 159
ShownPassed == ShownErrors <= MAX_ERRORS
ShownScore == Score(ShownCorrect, Len(examQuestions))

\* ---- review view (lines 233-253) ----
\* totalErrors: the entries of the answer map that differ from their question
ReviewErrors ==
  Cardinality({i \in DOMAIN answers :
                 /\ i >= 0 /\ i < Len(examQuestions)
                 /\ answers[i] # examQuestions[i + 1].isTrue})
ReviewPassed == ReviewErrors <= MAX_ERRORS

\* ---- effects ----
\* variant: the effect without its examQuestions.length === 0 test
PreSampleAlways(qs, eqs) ==
  IF Len(qs) > 0 THEN Samples(qs) ELSE {eqs}

\* lines 28-33: pre-sampling effect, deps [questions, examQuestions.length]
PreSample(qs, eqs) ==
  IF Len(qs) > 0 /\ Len(eqs) = 0 THEN Samples(qs) ELSE {eqs}

\* variant: the interval installed in every phase after the intro
TimerEffectAlways(ph, st, eqs, ans) ==
  IF ph # "intro"
  THEN [active |-> TRUE, examQuestions |-> eqs, answers |-> ans, startTime |-> st]
  ELSE NoTimer

\* lines 35-46: the timer effect installs an interval only in phase exam; the
\* callback closes over the state of the render the effect ran in
TimerEffect(ph, st, eqs, ans) ==
  IF ph = "exam"
  THEN [active |-> TRUE, examQuestions |-> eqs, answers |-> ans, startTime |-> st]
  ELSE NoTimer

\* the effect (cleanup, then body) re-runs only when phase or startTime changed
TimerAfterRender(ph, st, eqs, ans) ==
  IF ph # phase \/ st # startTime THEN TimerEffect(ph, st, eqs, ans) ELSE timer

InitWith(pools) ==
  /\ dbPool \in pools
  /\ questions = <<>>
  /\ examQuestions = <<>>
  /\ currentIndex = 0
  /\ answers = EmptyAnswers
  /\ phase = "intro"
  /\ startTime = 0
  /\ elapsed = 0
  /\ now = 0
  /\ timer = NoTimer
  /\ tickDue = FALSE
  /\ pending = 0
  /\ handed = 0
  /\ saved = <<>>
  /\ session = 0
  /\ calls = 0
  /\ mounted = TRUE

\* the provider with no user settings, an empty local storage and an Italian
\* browser, nothing resolved yet
LangIdle ==
  lang = [uiLang |-> "it", contentMode |-> "both", smartLearning |-> FALSE,
          storage |-> [ui |-> None, content |-> None, smart |-> None],
          rendered |-> [uiLang |-> "it", contentMode |-> "both", smartLearning |-> FALSE],
          notified |-> None, blocks |-> None]

NoGrading == [total |-> 0, correctCount |-> 0, persisted |-> None, displayed |-> None]
ScoreIdle == grading = NoGrading

\* the exam page before loadQuestions() has returned anything
ExamIdle == InitWith({Pool(0)})

\* AuthPage.tsx lines 15-30: the state of a freshly mounted AuthPage
AuthInitial(mode) ==
  [mode |-> mode, email |-> "", password |-> "", confirmPassword |-> "",
   firstName |-> <<>>, lastName |-> <<>>,
   resetStep |-> "email", resetCode |-> "", newPassword |-> "",
   confirmNewPassword |-> "", generatedCode |-> "",
   localError |-> "", requests |-> <<>>, dashboard |-> 0]
AuthIdle == auth = AuthInitial("login")

\* AuthPage.tsx lines 310-311, 329-343: a freshly mounted CommunityPage of a
\* logged-in user over posts whose quizStats are st: no vote in the state, none
\* in localStorage
QuizInitial(st) ==
  [quizVoted |-> {}, quizSelected |-> <<>>, stored |-> None,
   stats |-> st, before |-> st, first |-> <<>>, tasks |-> <<>>]
QuizIdle == quiz = QuizInitial([p \in {} |-> 0])
\* lines 312, 320: the feed of a freshly mounted page over the posts ps of the store
FeedInitial(ps, user) ==
  [posts |-> ps, user |-> user, following |-> <<>>, activeTab |-> "discover"]
FeedIdle == feed = FeedInitial(<<>>, None)
\* lines 293, 304: the comments of the open post and the comment being replied to
ThreadInitial == [comments |-> <<>>, replyingTo |-> None]
ThreadIdle == thread = ThreadInitial
PagesIdle == AuthIdle /\ QuizIdle /\ FeedIdle /\ ThreadIdle

Init == InitWith(Pools) /\ LangIdle /\ ScoreIdle /\ PagesIdle

\* line 26 and the store: loadQuestions() resolves and replaces store.questions
LoadQuestions ==
  /\ mounted
  /\ questions' = dbPool
  /\ examQuestions' \in PreSample(dbPool, examQuestions)
  /\ UNCHANGED <<dbPool, currentIndex, answers, phase, startTime, elapsed, now,
                 timer, tickDue, pending, handed, saved, session, calls, mounted>>
  /\ UNCHANGED nonExamVars

\* variant: start() without its setAnswers({})
StartKeepingAnswers ==
  /\ mounted /\ ~EmptyState
  /\ phase \in {"intro", "result"}
  /\ session < MaxSessions
  /\ \E s \in Samples(questions) :
       /\ examQuestions' \in PreSample(questions, s)
       /\ timer' = TimerAfterRender("exam", now, examQuestions', answers)
  /\ phase' = "exam"
  /\ startTime' = now
  /\ currentIndex' = 0
  /\ answers' = answers
  /\ elapsed' = 0
  /\ tickDue' = FALSE
  /\ handed' = 0
  /\ saved' = <<>>
  /\ session' = session + 1
  /\ UNCHANGED <<dbPool, questions, now, pending, calls, mounted>>
  /\ UNCHANGED nonExamVars

\* lines 48-57; the button is rendered in the intro (143) and result (223) views
Start ==
  /\ mounted /\ ~EmptyState
  /\ phase \in {"intro", "result"}
  /\ session < MaxSessions
  /\ \E s \in Samples(questions) :
       /\ examQuestions' \in PreSample(questions, s)
       /\ timer' = TimerAfterRender("exam", now, examQuestions', EmptyAnswers)
  /\ phase' = "exam"
  /\ startTime' = now
  /\ currentIndex' = 0
  /\ answers' = EmptyAnswers
  /\ elapsed' = 0
  /\ tickDue' = FALSE
  /\ handed' = 0
  /\ saved' = <<>>
  /\ session' = session + 1
  /\ UNCHANGED <<dbPool, questions, now, pending, calls, mounted>>
  /\ UNCHANGED nonExamVars

\* variant: answering moves on to the next question
HandleAnswerAdvancing(val) ==
  /\ ExamView
  /\ answers' = SetAnswer(answers, currentIndex, val)
  /\ currentIndex' = IF currentIndex < Len(examQuestions) - 1
                     THEN currentIndex + 1 ELSE currentIndex
  /\ UNCHANGED <<dbPool, questions, examQuestions, phase, startTime,
                 elapsed, now, timer, tickDue, pending, handed, saved,
                 session, calls, mounted>>
  /\ UNCHANGED nonExamVars

\* lines 59-61
HandleAnswer(val) ==
  /\ ExamView
  /\ answers' = SetAnswer(answers, currentIndex, val)
  /\ UNCHANGED <<dbPool, questions, examQuestions, currentIndex, phase, startTime,
                 elapsed, now, timer, tickDue, pending, handed, saved,
                 session, calls, mounted>>
  /\ UNCHANGED nonExamVars

\* line 63; the grid (330-341) offers one button per question
GoToQuestion(idx) ==
  /\ ExamView
  /\ currentIndex' = idx
  /\ UNCHANGED <<dbPool, questions, examQuestions, answers, phase, startTime,
                 elapsed, now, timer, tickDue, pending, handed, saved,
                 session, calls, mounted>>
  /\ UNCHANGED nonExamVars

\* line 64
NextQuestion ==
  /\ ExamView
  /\ currentIndex' = IF currentIndex < Len(examQuestions) - 1
                     THEN currentIndex + 1 ELSE currentIndex
  /\ UNCHANGED <<dbPool, questions, examQuestions, answers, phase, startTime,
                 elapsed, now, timer, tickDue, pending, handed, saved,
                 session, calls, mounted>>
  /\ UNCHANGED nonExamVars

\* line 65
PrevQuestion ==
  /\ ExamView
  /\ currentIndex' = IF currentIndex > 0 THEN currentIndex - 1 ELSE currentIndex
  /\ UNCHANGED <<dbPool, questions, examQuestions, answers, phase, startTime,
                 elapsed, now, timer, tickDue, pending, handed, saved,
                 session, calls, mounted>>
  /\ UNCHANGED nonExamVars

\* lines 67-80: finishExam up to its await, run with the values qs, ans, st of
\* the closure it is called from; the result is handed to saveQuizResult
FinishExam(qs, ans, st, via) ==
  /\ calls' = calls + 1
  /\ pending' = pending + 1
  /\ handed' = handed + 1
  /\ saved' = <<[result      |-> QuizResultOf(qs, ans, st, now),
                 via         |-> via,
                 answersUsed |-> ans,
                 answersNow  |-> answers]>>

\* lines 403/407: the submit button of the exam view
SubmitClick ==
  /\ ExamView
  /\ calls < MaxCalls
  /\ FinishExam(examQuestions, answers, startTime, "click")
  /\ UNCHANGED <<dbPool, questions, examQuestions, currentIndex, answers, phase,
                 startTime, elapsed, now, timer, tickDue, session,
                 mounted>>
  /\ UNCHANGED nonExamVars

\* variant: strict comparison
TimedOutStrict(e) == e > EXAM_TIME

\* line 41: the timeout test of the interval callback
TimedOut(e) == e >= EXAM_TIME

\* variant: the callback counts its own invocations
TickCounting ==
  /\ mounted /\ timer.active /\ tickDue
  /\ LET e == elapsed + 1 IN
       /\ elapsed' = e
       /\ IF TimedOut(e)
          THEN /\ calls < MaxCalls
               /\ FinishExam(timer.examQuestions, timer.answers, timer.startTime, "timer")
          ELSE UNCHANGED <<pending, handed, saved, calls>>
  /\ tickDue' = FALSE
  /\ UNCHANGED <<dbPool, questions, examQuestions, currentIndex, answers, phase,
                 startTime, now, timer, session, mounted>>
  /\ UNCHANGED nonExamVars

\* lines 38-42: the interval callback
Tick ==
  /\ mounted /\ timer.active /\ tickDue
  /\ LET e == Seconds(now - timer.startTime) IN
       /\ elapsed' = e
       /\ IF TimedOut(e)
          THEN /\ calls < MaxCalls
               /\ FinishExam(timer.examQuestions, timer.answers, timer.startTime, "timer")
          ELSE UNCHANGED <<pending, handed, saved, calls>>
  /\ tickDue' = FALSE
  /\ UNCHANGED <<dbPool, questions, examQuestions, currentIndex, answers, phase,
                 startTime, now, timer, session, mounted>>
  /\ UNCHANGED nonExamVars

\* the wall clock (Date.now()) moves on
AdvanceTime(d) ==
  /\ mounted
  /\ now + d <= MaxNow
  /\ now' = now + d
  /\ tickDue' = timer.active
  /\ UNCHANGED <<dbPool, questions, examQuestions, currentIndex, answers, phase,
                 startTime, elapsed, timer, pending, handed, saved, session, calls,
                 mounted>>
  /\ UNCHANGED nonExamVars

\* the wall clock moves on while the interval of a timed-out exam is still
\* installed
Overtime(d) ==
  /\ mounted /\ timer.active
  /\ now - startTime >= EXAM_TIME * 1000
  /\ now + d <= MaxLate
  /\ now' = now + d
  /\ tickDue' = TRUE
  /\ UNCHANGED <<dbPool, questions, examQuestions, currentIndex, answers, phase,
                 startTime, elapsed, timer, pending, handed, saved, session, calls,
                 mounted>>
  /\ UNCHANGED nonExamVars

\* lines 75-81: saveQuizResult resolves (its value is discarded) and finishExam
\* continues with setPhase('result')
SaveResolve ==
  /\ pending > 0
  /\ pending' = pending - 1
  /\ phase' = IF mounted THEN "result" ELSE phase
  /\ timer' = TimerAfterRender(phase', startTime, examQuestions, answers)
  /\ tickDue' = (tickDue /\ timer'.active)
  /\ UNCHANGED <<dbPool, questions, examQuestions, currentIndex, answers,
                 startTime, elapsed, now, handed, saved, session, calls, mounted>>
  /\ UNCHANGED nonExamVars

\* line 75: the awaited promise rejects; the rest of finishExam is skipped
SaveReject ==
  /\ pending > 0
  /\ pending' = pending - 1
  /\ UNCHANGED <<dbPool, questions, examQuestions, currentIndex, answers, phase,
                 startTime, elapsed, now, timer, tickDue, handed, saved, session, calls,
                 mounted>>
  /\ UNCHANGED nonExamVars

\* line 220
ShowReview ==
  /\ mounted /\ ~EmptyState /\ phase = "result"
  /\ phase' = "review"
  /\ timer' = TimerAfterRender("review", startTime, examQuestions, answers)
  /\ UNCHANGED <<dbPool, questions, examQuestions, currentIndex, answers,
                 startTime, elapsed, now, tickDue, pending, handed, saved,
                 session, calls, mounted>>
  /\ UNCHANGED nonExamVars

\* variant: the back button of the review leaves for the intro
BackToIntro ==
  /\ mounted /\ ~EmptyState /\ phase = "review"
  /\ phase' = "intro"
  /\ timer' = TimerAfterRender("intro", startTime, examQuestions, answers)
  /\ UNCHANGED <<dbPool, questions, examQuestions, currentIndex, answers,
                 startTime, elapsed, now, tickDue, pending, handed, saved,
                 session, calls, mounted>>
  /\ UNCHANGED nonExamVars

\* line 241
BackToResult ==
  /\ mounted /\ ~EmptyState /\ phase = "review"
  /\ phase' = "result"
  /\ timer' = TimerAfterRender("result", startTime, examQuestions, answers)
  /\ UNCHANGED <<dbPool, questions, examQuestions, currentIndex, answers,
                 startTime, elapsed, now, tickDue, pending, handed, saved,
                 session, calls, mounted>>
  /\ UNCHANGED nonExamVars

\* variant: the page goes away without the cleanup of the timer effect
UnmountKeepingTimer ==
  /\ mounted
  /\ mounted' = FALSE
  /\ timer' = timer
  /\ tickDue' = tickDue
  /\ examQuestions' = <<>>
  /\ currentIndex' = 0
  /\ answers' = EmptyAnswers
  /\ startTime' = 0
  /\ elapsed' = 0
  /\ handed' = 0
  /\ saved' = <<>>
  /\ session' = 0
  /\ calls' = 0
  /\ UNCHANGED <<dbPool, questions, phase, now, pending>>
  /\ UNCHANGED nonExamVars

\* onNavigate('dashboard') (lines 92, 99, 224, 301): the page is unmounted, the
\* timer effect's cleanup (line 44) runs and the component state is discarded;
\* the store and the saveQuizResult calls in flight live on
Unmount ==
  /\ mounted
  /\ mounted' = FALSE
  /\ timer' = NoTimer
  /\ tickDue' = FALSE
  /\ examQuestions' = <<>>
  /\ currentIndex' = 0
  /\ answers' = EmptyAnswers
  /\ startTime' = 0
  /\ elapsed' = 0
  /\ handed' = 0
  /\ saved' = <<>>
  /\ session' = 0
  /\ calls' = 0
  /\ UNCHANGED <<dbPool, questions, phase, now, pending>>
  /\ UNCHANGED nonExamVars

\* ---- LanguageProvider operations ----
\* The setters are useCallback closures of one render (lines 123-139): the
\* other two settings they pass to onSettingsChange are the values of the
\* render that created them, lang.rendered, until React renders again.
\* lines 123-127
setUILanguage(l) ==
  /\ lang' = [lang EXCEPT
                !.uiLang = l,
                !.storage.ui = Some(l),
                !.notified = Some([uiLanguage |-> l,
                                   contentMode |-> lang.rendered.contentMode,
                                   smartLearning |-> lang.rendered.smartLearning])]
  /\ UNCHANGED nonLangVars

\* lines 129-133
setContentMode(mode) ==
  /\ lang' = [lang EXCEPT
                !.contentMode = mode,
                !.storage.content = Some(mode),
                !.notified = Some([uiLanguage |-> lang.rendered.uiLang,
                                   contentMode |-> mode,
                                   smartLearning |-> lang.rendered.smartLearning])]
  /\ UNCHANGED nonLangVars

\* lines 135-139
setSmartLearning(enabled) ==
  /\ lang' = [lang EXCEPT
                !.smartLearning = enabled,
                !.storage.smart = Some(BoolString(enabled)),
                !.notified = Some([uiLanguage |-> lang.rendered.uiLang,
                                   contentMode |-> lang.rendered.contentMode,
                                   smartLearning |-> enabled])]
  /\ UNCHANGED nonLangVars

\* lines 87-104, 127, 133, 139: React renders the provider again after a
\* state update; the dependency lists rebuild the setters from the new state
Rerender ==
  /\ lang.rendered # [uiLang |-> lang.uiLang, contentMode |-> lang.contentMode,
                      smartLearning |-> lang.smartLearning]
  /\ lang' = [lang EXCEPT
                !.rendered = [uiLang |-> lang.uiLang, contentMode |-> lang.contentMode,
                              smartLearning |-> lang.smartLearning]]
  /\ UNCHANGED nonLangVars

\* a consumer calls resolveContent(ar, it) of the current render
Resolve(ar, it) ==
  /\ lang' = [lang EXCEPT
                !.blocks = Some([ar |-> ar, it |-> it, uiLang |-> lang.rendered.uiLang,
                                 contentMode |-> lang.rendered.contentMode,
                                 out |-> resolveContent(lang.rendered.uiLang,
                                                        lang.rendered.contentMode, ar, it)])]
  /\ UNCHANGED nonLangVars

\* ---- the score computation ----
\* line 74: finishExam computes the score it persists
FinishScore ==
  /\ grading.total > 0 /\ grading.persisted = None
  /\ grading' = [grading EXCEPT !.persisted = Some(Score(grading.correctCount, grading.total))]
  /\ UNCHANGED nonScoreVars

\* line 160: the result view computes the score it shows
ResultScore ==
  /\ grading.total > 0 /\ grading.displayed = None
  /\ grading' = [grading EXCEPT !.displayed = Some(Score(grading.correctCount, grading.total))]
  /\ UNCHANGED nonScoreVars

Answer == \E val \in BOOLEAN : HandleAnswer(val)
Navigate == \E idx \in 0..(Len(examQuestions) - 1) : GoToQuestion(idx)
Clock == \E d \in TimeJumps : AdvanceTime(d)
\* goToQuestion(idx: number) called with any index around the sequence
Jump == \E idx \in (-1)..Len(examQuestions) : GoToQuestion(idx)

Next ==
  \/ LoadQuestions
  \/ Start
  \/ Answer
  \/ Navigate
  \/ NextQuestion
  \/ PrevQuestion
  \/ SubmitClick
  \/ Tick
  \/ Clock
  \/ SaveResolve
  \/ ShowReview
  \/ BackToResult
  \/ Unmount

Spec == Init /\ [][Next]_vars

\* ---- failure specification: saveQuizResult may also fail ----
FailNext ==
  \/ Next
  \/ SaveReject

FailSpec == Init /\ [][FailNext]_vars

\* ---- sampling specification: pools below, at and above EXAM_QUESTIONS ----
SampleInit == InitWith(BigPools) /\ LangIdle /\ ScoreIdle /\ PagesIdle

SampleNext ==
  \/ LoadQuestions
  \/ Start
  \/ SubmitClick
  \/ SaveResolve

SampleSpec == SampleInit /\ [][SampleNext]_vars

\* ---- timeout specification: the interval keeps firing (setInterval) and
\* saveQuizResult returns; nobody navigates ----
LiveNext ==
  \/ LoadQuestions
  \/ Start
  \/ Answer
  \/ SubmitClick
  \/ Tick
  \/ Clock
  \/ SaveResolve

LiveSpec == Init /\ [][LiveNext]_vars /\ WF_vars(Tick) /\ WF_vars(SaveResolve)

\* ---- grading specification: sessions long enough to fail ----
GradeInit == InitWith(GradePools) /\ LangIdle /\ ScoreIdle /\ PagesIdle

GradeNext ==
  \/ LoadQuestions
  \/ Start
  \/ Answer
  \/ NextQuestion
  \/ SubmitClick
  \/ SaveResolve

GradeSpec == GradeInit /\ [][GradeNext]_vars

\* ---- navigation specification: goToQuestion over its whole argument range ----
NavNext ==
  \/ LoadQuestions
  \/ Start
  \/ Answer
  \/ Jump
  \/ NextQuestion
  \/ PrevQuestion
  \/ SubmitClick
  \/ SaveResolve
  \/ Unmount

NavSpec == Init /\ [][NavNext]_vars

\* ---- overtime specification: the clock runs past the time limit while the
\* exam view is still shown ----
Late == \E d \in LateJumps : Overtime(d)

TimeNext ==
  \/ LoadQuestions
  \/ Start
  \/ Answer
  \/ Tick
  \/ Clock
  \/ Late
  \/ SaveResolve
  \/ SaveReject

TimeSpec == Init /\ [][TimeNext]_vars

\* ---- language specification: the provider alone ----
LangInit ==
  /\ ExamIdle /\ ScoreIdle /\ PagesIdle
  /\ \E us \in UserSettings, st \in Storages, bl \in BrowserLanguages :
       lang = [uiLang |-> InitialUILang(us, st, bl),
               contentMode |-> InitialContentMode(us, st),
               smartLearning |-> InitialSmartLearning(us, st),
               storage |-> st,
               rendered |-> [uiLang |-> InitialUILang(us, st, bl),
                             contentMode |-> InitialContentMode(us, st),
                             smartLearning |-> InitialSmartLearning(us, st)],
               notified |-> None, blocks |-> None]

ChooseUILanguage == \E l \in UILanguages : setUILanguage(l)
ChooseContentMode == \E mode \in ContentModes : setContentMode(mode)
ChooseSmartLearning == \E enabled \in BOOLEAN : setSmartLearning(enabled)
Render == \E ar \in ArTexts, it \in ItTexts : Resolve(ar, it)

LangNext ==
  \/ ChooseUILanguage
  \/ ChooseContentMode
  \/ ChooseSmartLearning
  \/ Rerender
  \/ Render

LangSpec == LangInit /\ [][LangNext]_vars

\* ---- score specification: every total of a session and every correct count ----
ScoreInit ==
  /\ ExamIdle /\ LangIdle /\ PagesIdle
  /\ \E n \in 1..EXAM_QUESTIONS : \E c \in 0..n :
       grading = [total |-> n, correctCount |-> c, persisted |-> None, displayed |-> None]

ScoreNext ==
  \/ FinishScore
  \/ ResultScore

ScoreSpec == ScoreInit /\ [][ScoreNext]_vars

\* ---- CommunityPage: the quiz votes ----
\* handleQuizAnswer calls past their first await that the model follows
MaxVotes == 3
PostIds == {"p1", "p2"}
\* post.quizStats || { trueCount: 0, falseCount: 0 }, line 463
QuizStats == {[trueCount |-> 0, falseCount |-> 0], [trueCount |-> 2, falseCount |-> 1]}

\* { ...map, [key]: value }
Spread(map, key, value) ==
  [k \in DOMAIN map \cup {key} |-> IF k = key THEN value ELSE map[k]]

\* lines 451-461 without the test of line 452
handleQuizAnswerAgain(postId, answer) ==
  /\ Len(quiz.tasks) < MaxVotes
  /\ LET newVoted == quiz.quizVoted \cup {postId}
         newSelected == Spread(quiz.quizSelected, postId, answer)
     IN  quiz' = [quiz EXCEPT
                    !.quizVoted = newVoted,
                    !.quizSelected = newSelected,
                    !.stored = Some([voted |-> newVoted, selected |-> newSelected]),
                    !.first = IF postId \in DOMAIN @ THEN @ ELSE Spread(@, postId, answer),
                    !.tasks = Append(@, [postId |-> postId, answer |-> answer,
                                         at |-> "get", post |-> None])]
  /\ UNCHANGED nonQuizVars

\* lines 451-461: the synchronous part, up to the first await; the page is
\* rendered again before the next click
handleQuizAnswer(postId, answer) ==
  /\ postId \notin quiz.quizVoted
  /\ Len(quiz.tasks) < MaxVotes
  /\ LET newVoted == quiz.quizVoted \cup {postId}
         newSelected == Spread(quiz.quizSelected, postId, answer)
     IN  quiz' = [quiz EXCEPT
                    !.quizVoted = newVoted,
                    !.quizSelected = newSelected,
                    !.stored = Some([voted |-> newVoted, selected |-> newSelected]),
                    !.first = IF postId \in DOMAIN @ THEN @ ELSE Spread(@, postId, answer),
                    !.tasks = Append(@, [postId |-> postId, answer |-> answer,
                                         at |-> "get", post |-> None])]
  /\ UNCHANGED nonQuizVars

\* lines 461-465: db.get and the increment of the copy read
QuizGet(i) ==
  /\ i \in 1..Len(quiz.tasks)
  /\ quiz.tasks[i].at = "get"
  /\ LET t == quiz.tasks[i]
         read == quiz.stats[t.postId]
         stats == IF t.answer THEN [read EXCEPT !.trueCount = @ + 1]
                              ELSE [read EXCEPT !.falseCount = @ + 1]
     IN  quiz' = [quiz EXCEPT !.tasks[i].at = "put", !.tasks[i].post = Some(stats)]
  /\ UNCHANGED nonQuizVars

\* lines 466-467: db.put and loadPosts
QuizPut(i) ==
  /\ i \in 1..Len(quiz.tasks)
  /\ quiz.tasks[i].at = "put"
  /\ quiz' = [quiz EXCEPT !.tasks[i].at = "done",
                          !.stats[quiz.tasks[i].postId] = quiz.tasks[i].post[1]]
  /\ UNCHANGED nonQuizVars

\* lines 310-311, 335-342: the page is left and opened again; the effect reads
\* the votes back when the key exists
QuizRemount ==
  /\ quiz' = [quiz EXCEPT
                !.quizVoted = IF quiz.stored = None THEN {} ELSE quiz.stored[1].voted,
                !.quizSelected = IF quiz.stored = None THEN <<>> ELSE quiz.stored[1].selected]
  /\ UNCHANGED nonQuizVars

QuizInit ==
  /\ ExamIdle /\ LangIdle /\ ScoreIdle /\ AuthIdle /\ FeedIdle /\ ThreadIdle
  /\ \E st \in [PostIds -> QuizStats] : quiz = QuizInitial(st)

QuizNext ==
  \/ \E postId \in PostIds, answer \in BOOLEAN : handleQuizAnswer(postId, answer)
  \/ \E i \in 1..MaxVotes : QuizGet(i)
  \/ \E i \in 1..MaxVotes : QuizPut(i)
  \/ QuizRemount

QuizSpec == QuizInit /\ [][QuizNext]_vars

\* ---- CommunityPage: the feed ----
MaxPosts == 3
UserIds == {"me", "u2", "u3"}
\* new Date(p.createdAt).getTime(), line 533: two posts can share a time
Times == {1, 2}
\* the posts of the store: the id of a post is its place in the list
PostsOf(n) ==
  {ps \in [1..n -> [id : 1..n, userId : UserIds, pinned : BOOLEAN, createdAt : Times]] :
     \A i \in 1..n : ps[i].id = i}
PostLists == UNION {PostsOf(n) : n \in 0..MaxPosts}

\* the comparator without the pinned tests
CompareByDate(a, b) == b.createdAt - a.createdAt

\* lines 530-534: the comparator of sortedPosts
Compare(a, b) ==
  IF a.pinned /\ ~b.pinned THEN -1
  ELSE IF ~a.pinned /\ b.pinned THEN 1
  ELSE b.createdAt - a.createdAt

\* Array.prototype.sort is stable: x goes behind everything that does not
\* compare after it
RECURSIVE InsertSorted(_, _)
InsertSorted(x, sorted) ==
  IF sorted = <<>> THEN <<x>>
  ELSE IF Compare(Head(sorted), x) <= 0
         THEN <<Head(sorted)>> \o InsertSorted(x, Tail(sorted))
         ELSE <<x>> \o sorted
RECURSIVE SortPosts(_)
SortPosts(ps) ==
  IF ps = <<>> THEN <<>>
  ELSE InsertSorted(ps[Len(ps)], SortPosts(SubSeq(ps, 1, Len(ps) - 1)))

Includes(list, x) == \E i \in 1..Len(list) : list[i] = x

\* line 530
sortedPosts == SortPosts(feed.posts)

\* line 538: the test of the filter; user?.id is undefined without a user
FollowedOrOwn(p) == Includes(feed.following, p.userId) \/ feed.user = Some(p.userId)

\* lines 537-539
filteredPosts ==
  IF feed.activeTab = "following" THEN SelectSeq(sortedPosts, FollowedOrOwn)
  ELSE sortedPosts

\* lines 470-474, with the loadPosts that follows the write
togglePinPost(postId) ==
  /\ postId \in 1..Len(feed.posts)
  /\ feed' = [feed EXCEPT !.posts[postId].pinned = ~@]
  /\ UNCHANGED nonFeedVars

\* lines 476-481
toggleFollow(userId) ==
  /\ feed.user # None
  /\ feed' = [feed EXCEPT
                !.following = IF Includes(@, userId)
                                THEN SelectSeq(@, LAMBDA id : id # userId)
                                ELSE Append(@, userId)]
  /\ UNCHANGED nonFeedVars

\* line 320
setActiveTab(tab) ==
  /\ feed' = [feed EXCEPT !.activeTab = tab]
  /\ UNCHANGED nonFeedVars

FeedInit ==
  /\ ExamIdle /\ LangIdle /\ ScoreIdle /\ AuthIdle /\ QuizIdle /\ ThreadIdle
  /\ \E ps \in PostLists, user \in {None, Some("me")} : feed = FeedInitial(ps, user)

FeedNext ==
  \/ \E postId \in 1..MaxPosts : togglePinPost(postId)
  \/ \E userId \in UserIds \ {"me"} : toggleFollow(userId)
  \/ \E tab \in {"discover", "following"} : setActiveTab(tab)

FeedSpec == FeedInit /\ [][FeedNext]_vars

\* ---- CommunityPage: comments and replies ----
MaxComments == 3
\* texts are sequences of characters
REPLY_TO == <<"R", "E", "P", "L", "Y", "_", "T", "O", ":">>
\* what is typed into the reply box
ReplyTexts == {<<>>, <<" ">>, <<"a">>, <<":">>, <<"a", ":", "b", ":">>}
\* what is typed into the comment box: the same, or a text that starts like
\* the encoding of a reply
CommentTexts ==
  ReplyTexts \cup {REPLY_TO \o <<"a">>, REPLY_TO \o <<"1", ":", "a">>}
\* the ids the store gives to the comments, in the order of creation
CommentId(n) == <<<<"1", "2", "3", "4", "5", "6", "7", "8", "9">>[n]>>

StartsWith(text, prefix) ==
  Len(text) >= Len(prefix) /\ SubSeq(text, 1, Len(prefix)) = prefix

\* line 280
isReply(c) == StartsWith(c.content, REPLY_TO)

\* the end of the match of /^REPLY_TO:([^:]+):/ in text, 0 without a match:
\* the first ':' behind the prefix, with at least one character before it
MatchEnd(text) ==
  IF ~StartsWith(text, REPLY_TO) THEN 0
  ELSE LET colons == {k \in (Len(REPLY_TO) + 1)..Len(text) : text[k] = ":"}
       IN  IF colons = {} THEN 0
           ELSE LET k == CHOOSE k \in colons : \A other \in colons : k <= other
                IN  IF k = Len(REPLY_TO) + 1 THEN 0 ELSE k

\* lines 281-285
getParentId(c) ==
  IF ~isReply(c) THEN None
  ELSE IF MatchEnd(c.content) = 0 THEN None
  ELSE Some(SubSeq(c.content, Len(REPLY_TO) + 1, MatchEnd(c.content) - 1))

\* lines 286-288
getReplyContent(c) ==
  IF MatchEnd(c.content) = 0 THEN c.content
  ELSE SubSeq(c.content, MatchEnd(c.content) + 1, Len(c.content))

\* line 525
rootComments == SelectSeq(thread.comments, LAMBDA c : ~isReply(c))
\* line 527
getReplies(commentId, cmts) == SelectSeq(cmts, LAMBDA c : getParentId(c) = Some(commentId))

\* createComment of the store followed by getComments: the comment is stored
\* with a new id and the content it was given
createComment(content, made) ==
  Append(thread.comments,
         [id |-> CommentId(Len(thread.comments) + 1), content |-> content, made |-> made])

\* lines 411-418
handleComment(newComment) ==
  /\ trim(newComment) # <<>>
  /\ Len(thread.comments) < MaxComments
  /\ thread' = [thread EXCEPT !.comments = createComment(newComment, None)]
  /\ UNCHANGED nonThreadVars

\* line 626: the reply button of a root comment
setReplyingTo(commentId) ==
  /\ \E i \in 1..Len(rootComments) : rootComments[i].id = commentId
  /\ thread' = [thread EXCEPT !.replyingTo = Some(commentId)]
  /\ UNCHANGED nonThreadVars

\* line 691
CancelReply ==
  /\ thread.replyingTo # None
  /\ thread' = [thread EXCEPT !.replyingTo = None]
  /\ UNCHANGED nonThreadVars

\* lines 420-427
handleReply(replyContent) ==
  /\ trim(replyContent) # <<>> /\ thread.replyingTo # None
  /\ Len(thread.comments) < MaxComments
  /\ thread' = [thread EXCEPT
                  !.comments = createComment(
                     REPLY_TO \o thread.replyingTo[1] \o <<":">> \o replyContent,
                     Some([parent |-> thread.replyingTo[1], text |-> replyContent])),
                  !.replyingTo = None]
  /\ UNCHANGED nonThreadVars

ThreadInit ==
  /\ ExamIdle /\ LangIdle /\ ScoreIdle /\ AuthIdle /\ QuizIdle /\ FeedIdle
  /\ thread = ThreadInitial

ThreadNext ==
  \/ \E text \in CommentTexts : handleComment(text)
  \/ \E n \in 1..MaxComments : setReplyingTo(CommentId(n))
  \/ CancelReply
  \/ \E text \in ReplyTexts : handleReply(text)

ThreadSpec == ThreadInit /\ [][ThreadNext]_vars

\* ---- AuthPage operations ----
\* lines 139-229: the inputs change one field each; an input exists only in
\* the form, and in the reset flow only in the step, that renders it
setEmail(v) ==
  /\ auth.mode = "reset-password" => auth.resetStep = "email"
  /\ auth' = [auth EXCEPT !.email = v]
  /\ UNCHANGED nonAuthVars

setPassword(v) ==
  /\ auth.mode \in {"login", "register"}
  /\ auth' = [auth EXCEPT !.password = v]
  /\ UNCHANGED nonAuthVars

setConfirmPassword(v) ==
  /\ auth.mode = "register"
  /\ auth' = [auth EXCEPT !.confirmPassword = v]
  /\ UNCHANGED nonAuthVars

setFirstName(v) ==
  /\ auth.mode = "register"
  /\ auth' = [auth EXCEPT !.firstName = v]
  /\ UNCHANGED nonAuthVars

setLastName(v) ==
  /\ auth.mode = "register"
  /\ auth' = [auth EXCEPT !.lastName = v]
  /\ UNCHANGED nonAuthVars

setResetCode(v) ==
  /\ auth.mode = "reset-password" /\ auth.resetStep = "code"
  /\ auth' = [auth EXCEPT !.resetCode = v]
  /\ UNCHANGED nonAuthVars

setNewPassword(v) ==
  /\ auth.mode = "reset-password" /\ auth.resetStep = "newpass"
  /\ auth' = [auth EXCEPT !.newPassword = v]
  /\ UNCHANGED nonAuthVars

setConfirmNewPassword(v) ==
  /\ auth.mode = "reset-password" /\ auth.resetStep = "newpass"
  /\ auth' = [auth EXCEPT !.confirmNewPassword = v]
  /\ UNCHANGED nonAuthVars

\* lines 148, 153, 180: the links between the login and the register form
\* clear the error and ask the parent for the other mode
SwitchMode(mode) ==
  /\ auth.mode \in {"login", "register"} /\ mode \in {"login", "register"}
  /\ mode # auth.mode
  /\ auth' = [auth EXCEPT !.mode = mode, !.localError = ""]
  /\ UNCHANGED nonAuthVars

\* a call of a store action, pending until the store returns
\* (name is the fullName argument of register, <<>> for the other two)
Request(op, name) == [op |-> op, name |-> name, state |-> "pending"]

\* the checks of handleLogin, lines 35: '' when they pass
LoginError == IF auth.email = "" \/ auth.password = "" THEN "fill-all" ELSE ""

\* lines 32-38, up to the await
handleLogin ==
  /\ auth.mode = "login"
  /\ IF LoginError # ""
       THEN auth' = [auth EXCEPT !.localError = LoginError]
       ELSE /\ Len(auth.requests) < MaxRequests
            /\ auth' = [auth EXCEPT
                          !.localError = "",
                          !.requests = Append(@, Request("login", <<>>))]
  /\ UNCHANGED nonAuthVars

\* the checks of handleRegister, lines 43-48, in their order
RegisterErrorAnyLength ==
  IF trim(auth.firstName) = <<>> THEN "first-name"
  ELSE IF trim(auth.lastName) = <<>> THEN "last-name"
  ELSE IF auth.email = "" THEN "email"
  ELSE IF auth.password = "" THEN "password"
  ELSE IF auth.password # auth.confirmPassword THEN "mismatch"
  ELSE ""

RegisterError ==
  IF trim(auth.firstName) = <<>> THEN "first-name"
  ELSE IF trim(auth.lastName) = <<>> THEN "last-name"
  ELSE IF auth.email = "" THEN "email"
  ELSE IF auth.password = "" THEN "password"
  ELSE IF Len(auth.password) < MIN_PASSWORD THEN "too-short"
  ELSE IF auth.password # auth.confirmPassword THEN "mismatch"
  ELSE ""

\* lines 40-56, up to the await
handleRegister ==
  /\ auth.mode = "register"
  /\ IF RegisterError # ""
       THEN auth' = [auth EXCEPT !.localError = RegisterError]
       ELSE /\ Len(auth.requests) < MaxRequests
            /\ auth' = [auth EXCEPT
                          !.localError = "",
                          !.requests = Append(@, Request("register",
                                                fullName(auth.firstName, auth.lastName)))]
  /\ UNCHANGED nonAuthVars

\* the check of each step of handleResetPassword, lines 62, 69, 72-74
ResetErrorAnyCode ==
  CASE auth.resetStep = "email" -> IF auth.email = "" THEN "email" ELSE ""
    [] auth.resetStep = "code" -> ""
    [] auth.resetStep = "newpass" ->
         IF auth.newPassword = "" THEN "password"
         ELSE IF Len(auth.newPassword) < MIN_PASSWORD THEN "too-short"
         ELSE IF auth.newPassword # auth.confirmNewPassword THEN "mismatch"
         ELSE ""
    [] OTHER -> ""

ResetError ==
  CASE auth.resetStep = "email" -> IF auth.email = "" THEN "email" ELSE ""
    [] auth.resetStep = "code" ->
         IF auth.resetCode # auth.generatedCode THEN "wrong-code" ELSE ""
    [] auth.resetStep = "newpass" ->
         IF auth.newPassword = "" THEN "password"
         ELSE IF Len(auth.newPassword) < MIN_PASSWORD THEN "too-short"
         ELSE IF auth.newPassword # auth.confirmNewPassword THEN "mismatch"
         ELSE ""
    [] OTHER -> ""

\* lines 58-81, up to the await; in step done no branch is taken
handleResetPassword(code) ==
  /\ auth.mode = "reset-password"
  /\ IF ResetError # ""
       THEN auth' = [auth EXCEPT !.localError = ResetError]
       ELSE CASE auth.resetStep = "email" ->
                   auth' = [auth EXCEPT !.localError = "", !.generatedCode = code,
                                        !.resetStep = "code"]
              [] auth.resetStep = "code" ->
                   auth' = [auth EXCEPT !.localError = "", !.resetStep = "newpass"]
              [] auth.resetStep = "newpass" ->
                   /\ Len(auth.requests) < MaxRequests
                   /\ auth' = [auth EXCEPT
                                 !.localError = "",
                                 !.requests = Append(@, Request("resetPassword", <<>>))]
              [] OTHER -> auth' = [auth EXCEPT !.localError = ""]
  /\ UNCHANGED nonAuthVars

\* lines 36-37, 50-55, 75-79: the store returns and the handler goes on
StoreReturns(i, success) ==
  /\ i \in 1..Len(auth.requests)
  /\ auth.requests[i].state = "pending"
  /\ LET op == auth.requests[i].op
         done == [auth EXCEPT !.requests[i].state = IF success THEN "ok" ELSE "failed"]
     IN  auth' =
           IF ~success THEN done
           ELSE IF op = "resetPassword" THEN [done EXCEPT !.resetStep = "done"]
           ELSE [done EXCEPT !.dashboard = @ + 1]
  /\ UNCHANGED nonAuthVars

\* ---- the login and register forms ----
AuthInit ==
  /\ ExamIdle /\ LangIdle /\ ScoreIdle /\ QuizIdle /\ FeedIdle /\ ThreadIdle
  /\ \E mode \in {"login", "register"} : auth = AuthInitial(mode)

AuthNext ==
  \/ \E v \in Emails : setEmail(v)
  \/ \E v \in Passwords : setPassword(v)
  \/ \E v \in Passwords : setConfirmPassword(v)
  \/ \E v \in Names : setFirstName(v)
  \/ \E v \in Names : setLastName(v)
  \/ \E mode \in {"login", "register"} : SwitchMode(mode)
  \/ handleLogin
  \/ handleRegister
  \/ \E i \in 1..MaxRequests, success \in BOOLEAN : StoreReturns(i, success)

AuthSpec == AuthInit /\ [][AuthNext]_vars

\* ---- the password reset flow ----
ResetInit ==
  /\ ExamIdle /\ LangIdle /\ ScoreIdle /\ QuizIdle /\ FeedIdle /\ ThreadIdle
  /\ auth = AuthInitial("reset-password")

ResetNext ==
  \/ \E v \in Emails : setEmail(v)
  \/ \E v \in CodeInputs : setResetCode(v)
  \/ \E v \in Passwords : setNewPassword(v)
  \/ \E v \in Passwords : setConfirmNewPassword(v)
  \/ \E code \in Codes : handleResetPassword(code)
  \/ \E i \in 1..MaxRequests, success \in BOOLEAN : StoreReturns(i, success)

ResetSpec == ResetInit /\ [][ResetNext]_vars

\* ======================= properties =======================

NowTimedOut == now - startTime >= EXAM_TIME * 1000

\* C1: in every session at most one QuizResult is handed to saveQuizResult,
\* whatever the interleaving of submit clicks, timed-out ticks and the pending
\* save.
C1_SingleResultPerSession == handed <= 1

\* C2: the result a timed-out tick hands to saveQuizResult is the one computed
\* from the answers recorded at that moment.
C2_TimeoutUsesCurrentAnswers ==
  (saved # <<>> /\ saved[1].via = "timer") =>
    LET list == AnsweredList(examQuestions, saved[1].answersNow) IN
      /\ saved[1].result.answers = list
      /\ saved[1].result.correctAnswers = CountCorrect(list)

\* C3: whenever a saveQuizResult call of a mounted page comes back, with
\* success or with failure, the phase is result afterwards.
C3_FinishAlwaysReachesResult ==
  [][(mounted /\ pending' < pending) => phase' = "result"]_vars

\* C4: the phase changes only along intro->exam, exam->result,
\* result->review, review->result and result->exam.
PhaseEdges == {<<"intro", "exam">>, <<"exam", "result">>, <<"result", "review">>,
               <<"review", "result">>, <<"result", "exam">>}
C4_PhaseTransitions == [][phase' # phase => <<phase, phase'>> \in PhaseEdges]_vars
C4_Witness == mounted /\ phase = "review" /\ session = 2

\* C5: in phase exam, once the wall clock is EXAM_TIME past the start the phase
\* eventually becomes result without any user action, while the interval
\* fires and the save returns (and the model still has a finishExam call left
\* or one in flight).
C5_TimeoutLeadsToResult ==
  (mounted /\ phase = "exam" /\ NowTimedOut /\ (pending > 0 \/ calls < MaxCalls))
    ~> (phase = "result")
C5_Witness ==
  /\ mounted /\ phase = "result" /\ handed = 1
  /\ saved # <<>> /\ saved[1].via = "timer"

\* C6: in phase exam the pool and the session are non-empty; with an empty pool
\* the phase stays intro and the empty state is what is rendered.
C6_NoExamOnEmptyPool ==
  mounted =>
    /\ phase = "exam" => (Len(questions) > 0 /\ Len(examQuestions) >= 1)
    /\ Len(dbPool) = 0 => (EmptyState /\ phase = "intro")
C6_Witness == mounted /\ Len(dbPool) = 0 /\ now > 0 /\ EmptyState

\* C7: a started session has exactly min(30, pool size) questions.
C7_SessionSize ==
  (mounted /\ session > 0) =>
    Len(examQuestions) = (IF Len(questions) >= 30 THEN 30 ELSE Len(questions))
C7_Witness ==
  /\ mounted /\ phase = "exam" /\ session = 2
  /\ Len(questions) > 30 /\ Len(examQuestions) = 30

\* C8: the sampled sequence has no duplicate question identifier and every
\* question of it belongs to the pool.
C8_NoDuplicates ==
  /\ \A i, j \in 1..Len(examQuestions) :
       i # j => examQuestions[i].id # examQuestions[j].id
  /\ \A i \in 1..Len(examQuestions) :
       \E k \in 1..Len(dbPool) : dbPool[k] = examQuestions[i]
C8_Witness ==
  /\ mounted /\ phase = "exam"
  /\ Len(dbPool) > Len(examQuestions) /\ Len(examQuestions) = 30
  /\ examQuestions[1].id # 1

\* C9: from the start of a session on, no step other than restart() changes
\* the question sequence.
C9_SequenceFixed ==
  [][(mounted' /\ phase # "intro" /\ session' = session)
       => examQuestions' = examQuestions]_vars
C9_Witness ==
  /\ mounted /\ phase = "review" /\ session = 1
  /\ Len(examQuestions) = 2 /\ examQuestions[1].id = 2
  /\ answers # EmptyAnswers

\* C10: errors = total - correctCount, a question being correct only if it is
\* answered and the answer equals its flag: the persisted wrong count (for the
\* answer map finishExam read) and the error count of the result view (for
\* the answer map rendered) are that number.
ErrorsOf(qs, ans) ==
  Cardinality({i \in 1..Len(qs) : ~Answered(ans, i - 1) \/ ans[i - 1] # qs[i].isTrue})
C10_ErrorCount ==
  /\ saved # <<>> =>
       /\ saved[1].result.wrongAnswers = ErrorsOf(examQuestions, saved[1].answersUsed)
       /\ saved[1].result.wrongAnswers
            = saved[1].result.totalQuestions - saved[1].result.correctAnswers
  /\ (mounted /\ phase = "result") =>
       /\ ShownErrors = ErrorsOf(examQuestions, answers)
       /\ ShownErrors = Len(examQuestions) - ShownCorrect
C10_Witness ==
  /\ mounted /\ phase = "result" /\ saved # <<>>
  /\ Len(examQuestions) = 2
  /\ DOMAIN answers = {0} /\ answers[0] # examQuestions[1].isTrue
  /\ saved[1].result.wrongAnswers = 2

\* C11: the result view shows the exam as passed exactly when the number of
\* errors, unanswered questions included, is at most 3: 3 errors pass,
\* 4 errors fail, whatever the score.
C11_PassIffAtMostThreeErrors ==
  (mounted /\ phase = "result") =>
    LET errors == ErrorsOf(examQuestions, answers) IN
      /\ ShownPassed <=> errors <= 3
      /\ errors = 3 => ShownPassed
      /\ errors = 4 => ~ShownPassed
C11_Witness ==
  /\ mounted /\ phase = "result" /\ Len(examQuestions) = 4
  /\ ErrorsOf(examQuestions, answers) = 3 /\ ShownUnanswered = 2
  /\ ShownPassed /\ ShownScore = 25

\* C12: for every total of 1..EXAM_QUESTIONS and every correct count of
\* 0..total, the score computed is the integer nearest to 100 * correctCount /
\* total, a half rounded up; it lies in 0..100, is 100 exactly when
\* correctCount = total and 0 exactly when correctCount = 0; the score
\* finishExam persists and the score the result view shows are that value.
C12_ScoreRounding ==
  \A s \in {grading.persisted, grading.displayed} :
    s # None =>
      LET r == s[1]
          c == grading.correctCount
          n == grading.total
      IN /\ 2 * n * r <= 200 * c + n
         /\ 200 * c + n < 2 * n * (r + 1)
         /\ r \in 0..100
         /\ r = 100 <=> c = n
         /\ r = 0 <=> c = 0
         /\ (grading.persisted # None /\ grading.displayed # None)
              => grading.persisted = grading.displayed
C12_Witness ==
  /\ grading.total = 8 /\ grading.correctCount = 3
  /\ grading.persisted = Some(38) /\ grading.displayed = Some(38)

\* C13: a step that starts a session (start() from intro, restart() from
\* result) ends with a sequence sampled from the pool, an empty answer map,
\* elapsed = 0, cursor = 0, the start timestamp set to the current instant and
\* phase exam, whatever the state before it.
C13_StartResets ==
  [][session' = session + 1 =>
       /\ phase \in {"intro", "result"}
       /\ examQuestions' \in Samples(questions)
       /\ answers' = EmptyAnswers
       /\ elapsed' = 0
       /\ currentIndex' = 0
       /\ startTime' = now
       /\ phase' = "exam"]_vars
C13_Witness ==
  /\ mounted /\ session = 2 /\ phase = "exam"
  /\ startTime = now /\ now > 0
  /\ answers = EmptyAnswers /\ currentIndex = 0 /\ elapsed = 0
  /\ timer.active /\ timer.startTime = now

\* C14: a QuizResult handed to saveQuizResult has totalQuestions equal to the
\* length of the session's sequence, correctAnswers + wrongAnswers equal to
\* totalQuestions, one answers entry per question, in sequence order and with
\* that question's id, topicId 'exam-simulator' and lessonId ''.
C14_ResultShape ==
  saved # <<>> =>
    LET r == saved[1].result IN
      /\ r.totalQuestions = Len(examQuestions)
      /\ r.correctAnswers + r.wrongAnswers = r.totalQuestions
      /\ r.correctAnswers >= 0 /\ r.wrongAnswers >= 0
      /\ Len(r.answers) = Len(examQuestions)
      /\ \A i \in 1..Len(examQuestions) :
           r.answers[i].questionId = examQuestions[i].id
      /\ r.topicId = "exam-simulator"
      /\ r.lessonId = ""
C14_Witness ==
  /\ saved # <<>> /\ Len(examQuestions) = 2
  /\ examQuestions[1].id = 2
  /\ saved[1].result.answers[1].questionId = 2
  /\ saved[1].result.correctAnswers = 1
  /\ saved[1].result.wrongAnswers = 1

\* C15: resolveContent answers every call, for each of the 2 UI languages and
\* 3 content modes, with the documented blocks: mode 'ar' -> the Arabic text
\* alone, mode 'it' -> the Italian text alone, mode 'both' -> the block of the
\* UI language first and the other language second, marked secondary; a block
\* labelled 'ar' carries the Arabic text and one labelled 'it' the Italian.
C15_ResolveContentMatrix ==
  /\ lang.uiLang \in UILanguages /\ lang.contentMode \in ContentModes
  /\ lang.blocks # None =>
       LET b    == lang.blocks[1]
           arB(sec) == [text |-> b.ar, lang |-> "ar", secondary |-> sec]
           itB(sec) == [text |-> b.it, lang |-> "it", secondary |-> sec]
       IN /\ b.contentMode = "ar" => b.out = <<arB(FALSE)>>
          /\ b.contentMode = "it" => b.out = <<itB(FALSE)>>
          /\ (b.contentMode = "both" /\ b.uiLang = "it") => b.out = <<itB(FALSE), arB(TRUE)>>
          /\ (b.contentMode = "both" /\ b.uiLang = "ar") => b.out = <<arB(FALSE), itB(TRUE)>>
          /\ Len(b.out) \in {1, 2}
          /\ \A i \in 1..Len(b.out) :
               b.out[i].text = (IF b.out[i].lang = "ar" THEN b.ar ELSE b.it)
C15_Witness ==
  /\ lang.blocks # None /\ lang.blocks[1].contentMode = "both"
  /\ lang.blocks[1].uiLang = "ar"
  /\ lang.blocks[1].out = <<[text |-> "ar:stop", lang |-> "ar", secondary |-> FALSE],
                       [text |-> "it:yield", lang |-> "it", secondary |-> TRUE]>>

C17_ResultReviewFrozen ==
  [][(mounted /\ mounted' /\ phase \in {"result", "review"} /\ session' = session)
       => UNCHANGED <<examQuestions, answers, elapsed, handed, saved, calls>>]_vars
C17_Witness ==
  /\ mounted /\ phase = "review" /\ pending = 1 /\ handed = 2
  /\ answers # EmptyAnswers /\ now > startTime /\ elapsed = 0

\* C18: a step that changes the answer map within a session writes the entry
\* of the current question only and leaves the cursor, the start timestamp,
\* the elapsed time and the interval alone; a step that moves the cursor
\* within a session leaves the answers, the start timestamp and the elapsed
\* time alone.
C18_AnswerNavigateIndependent ==
  [][(mounted' /\ session' = session) =>
       /\ answers' # answers =>
            /\ DOMAIN answers' = (DOMAIN answers) \cup {currentIndex}
            /\ \A j \in (DOMAIN answers) \ {currentIndex} : answers'[j] = answers[j]
            /\ UNCHANGED <<currentIndex, startTime, elapsed, timer, tickDue>>
       /\ currentIndex' # currentIndex =>
            UNCHANGED <<answers, startTime, elapsed, timer, tickDue>>]_vars
C18_Witness ==
  /\ ExamView /\ Len(examQuestions) = 2
  /\ currentIndex = 1 /\ DOMAIN answers = {1} /\ elapsed = 900

\* C19: the answer map has entries only for positions of the sequence; within
\* a session it changes only by setting the entry of the current question;
\* setting an entry twice with the same value equals setting it once, and
\* setting it again with another value overwrites without a further entry;
\* the answered count is the number of answered positions and is at most the
\* number of questions.
C19_AnswerMap ==
  /\ [](/\ DOMAIN answers \subseteq 0..(Len(examQuestions) - 1)
        /\ answeredCount
             = Cardinality({i \in 0..(Len(examQuestions) - 1) : Answered(answers, i)})
        /\ answeredCount <= Len(examQuestions)
        /\ ExamView =>
             \A v \in BOOLEAN :
               LET once == SetAnswer(answers, currentIndex, v) IN
                 /\ SetAnswer(once, currentIndex, v) = once
                 /\ once[currentIndex] = v
                 /\ DOMAIN once = (DOMAIN answers) \cup {currentIndex}
                 /\ DOMAIN SetAnswer(once, currentIndex, ~v) = DOMAIN once
                 /\ SetAnswer(once, currentIndex, ~v)[currentIndex] = ~v)
  /\ [][(mounted' /\ session' = session /\ answers' # answers) =>
          \E v \in BOOLEAN :
            answers' = [j \in (DOMAIN answers) \cup {currentIndex} |->
                          IF j = currentIndex THEN v ELSE answers[j]]]_vars
  /\ [][session' # session => answers' = EmptyAnswers]_vars
C19_Witness ==
  /\ ExamView /\ Len(examQuestions) = 2 /\ session = 2
  /\ answeredCount = 2 /\ answers[0] = FALSE /\ answers[1] = TRUE
  /\ currentIndex = 0

\* C20: every run of the interval callback leaves elapsed =
\* floor((now - startTime) / 1000), whatever elapsed was before and however
\* many callbacks ran or were skipped; remaining is max(0, EXAM_TIME -
\* elapsed) and lies in 0..EXAM_TIME.
C20_WallClockCountdown ==
  /\ [][(tickDue /\ ~tickDue' /\ timer.active /\ timer' = timer) =>
          /\ elapsed' * 1000 <= now - startTime
          /\ now - startTime < (elapsed' + 1) * 1000]_vars
  /\ [](/\ remaining \in 0..EXAM_TIME
        /\ remaining = (IF elapsed >= EXAM_TIME THEN 0 ELSE EXAM_TIME - elapsed)
        /\ elapsed >= 0)
C20_Witness ==
  /\ mounted /\ phase = "exam" /\ now - startTime = 1801750
  /\ elapsed = 1801 /\ remaining = 0

\* C21: an interval is installed exactly while the page is mounted and the
\* phase is exam, with the start timestamp of the running session; there is
\* none in intro, result and review nor after the page is gone, a tick is
\* due only while an interval is installed, and elapsed changes only by a
\* tick of the installed interval or by a start.
C21_TimerOnlyInExam ==
  /\ [](/\ timer.active <=> (mounted /\ phase = "exam")
        /\ timer.active => timer.startTime = startTime
        /\ tickDue => timer.active)
  /\ [][(elapsed' # elapsed /\ session' = session /\ mounted')
          => (timer.active /\ phase = "exam" /\ mounted)]_vars
C21_Witness ==
  /\ ~mounted /\ phase = "exam" /\ ~timer.active /\ ~tickDue
  /\ pending = 1 /\ now = 1800500

SettingsOf(s) ==
  [uiLanguage |-> s.uiLang, contentMode |-> s.contentMode, smartLearning |-> s.smartLearning]

\* C22: each of setUILanguage, setContentMode and setSmartLearning updates and
\* persists: after the call the in-memory value and the value in local storage
\* both equal the argument, the other two settings are unchanged, and
\* onSettingsChange receives the new value together with the current values of
\* the other two settings, for any sequence of setter calls.
C22_SettersUpdateAndPersist ==
  [][/\ (lang'.storage.ui # lang.storage.ui \/ lang'.uiLang # lang.uiLang) =>
          /\ lang'.storage.ui = Some(lang'.uiLang)
          /\ lang'.contentMode = lang.contentMode
          /\ lang'.smartLearning = lang.smartLearning
     /\ (lang'.storage.content # lang.storage.content
           \/ lang'.contentMode # lang.contentMode) =>
          /\ lang'.storage.content = Some(lang'.contentMode)
          /\ lang'.uiLang = lang.uiLang
          /\ lang'.smartLearning = lang.smartLearning
     /\ (lang'.storage.smart # lang.storage.smart
           \/ lang'.smartLearning # lang.smartLearning) =>
          /\ lang'.storage.smart = Some(BoolString(lang'.smartLearning))
          /\ lang'.uiLang = lang.uiLang
          /\ lang'.contentMode = lang.contentMode
     /\ lang'.notified # lang.notified =>
          lang'.notified = Some(SettingsOf(lang'))]_vars

\* C23: in phase result the correct count, the error count, the score and
\* the verdict shown equal those of the QuizResult handed to saveQuizResult
\* for that session.
C23_SummaryEqualsPersisted ==
  (mounted /\ phase = "result" /\ saved # <<>>) =>
    LET r == saved[1].result IN
      /\ ShownCorrect = r.correctAnswers
      /\ ShownErrors = r.wrongAnswers
      /\ ShownScore = r.score
      /\ ShownPassed <=> (r.wrongAnswers <= MAX_ERRORS)

\* C24: the error count and the verdict of the review view equal those of
\* the result view of the same session, unanswered questions included.
C24_ReviewEqualsResult ==
  (mounted /\ phase = "review") =>
    /\ ReviewErrors = ShownErrors
    /\ ReviewPassed <=> ShownPassed

\* C25: in every entry of a persisted answers list, correct holds exactly
\* when the stored userAnswer equals the isTrue flag of its question, also
\* for a question left unanswered.
C25_EntryCorrectIffMatches ==
  saved # <<>> =>
    \A i \in 1..Len(saved[1].result.answers) :
      LET a == saved[1].result.answers[i] IN
        a.correct <=> (a.userAnswer = examQuestions[i].isTrue)

\* the store call issued by a step, <<>> if the step issues none
NewRequest ==
  IF Len(auth'.requests) > Len(auth.requests)
    THEN <<auth'.requests[Len(auth'.requests)]>> ELSE <<>>
\* the store calls that return success in a step
ReturnedOk(ops) ==
  \E i \in 1..Len(auth.requests) :
    /\ auth.requests[i].op \in ops
    /\ auth.requests[i].state = "pending"
    /\ auth'.requests[i].state = "ok"
\* a step whose check failed: it sets the error
SetsError == auth'.localError # "" /\ auth'.localError # auth.localError

\* C26: the password-reset flow advances only email -> code -> newpass -> done,
\* never skipping a step or going back: newpass is reached only after a
\* submitted code equal to the generated code, resetPassword of the store is
\* called only in step newpass with a new password of length >= 6 equal to its
\* confirmation, done is reached only after resetPassword returned success,
\* and a failed check leaves the step unchanged and sets an error.
C26_ResetFlowInOrder ==
  [][/\ auth'.resetStep # auth.resetStep =>
          \/ /\ auth.resetStep = "email" /\ auth'.resetStep = "code"
          \/ /\ auth.resetStep = "code" /\ auth'.resetStep = "newpass"
             /\ auth.resetCode = auth.generatedCode
             /\ auth.generatedCode \in Codes
          \/ /\ auth.resetStep = "newpass" /\ auth'.resetStep = "done"
             /\ ReturnedOk({"resetPassword"})
     /\ (NewRequest # <<>> /\ NewRequest[1].op = "resetPassword") =>
          /\ auth.resetStep = "newpass"
          /\ Len(auth.newPassword) >= MIN_PASSWORD
          /\ auth.newPassword = auth.confirmNewPassword
     /\ SetsError =>
          /\ auth'.resetStep = auth.resetStep
          /\ NewRequest = <<>>
     /\ ((\E code \in Codes : handleResetPassword(code)) /\ ResetError # "") =>
          /\ auth'.localError # ""
          /\ auth'.resetStep = auth.resetStep]_vars

\* the flow is done after a wrong code was refused and a first resetPassword failed
C26_Witness ==
  /\ auth.mode = "reset-password" /\ auth.resetStep = "done"
  /\ auth.resetCode = auth.generatedCode
  /\ Len(auth.requests) = 2
  /\ auth.requests[1].state = "failed" /\ auth.requests[2].state = "ok"

\* C27: login is called only when email and password are both non-empty;
\* register is called only when first and last name are non-blank, email and
\* password are non-empty, and the password has length >= 6 and equals its
\* confirmation; a failed check sets the local error and neither the store
\* action nor navigation happens; navigation to the dashboard happens only
\* after the store action returned success.
C27_ChecksBeforeStoreCalls ==
  [][/\ (NewRequest # <<>> /\ NewRequest[1].op = "login") =>
          /\ auth.email # "" /\ auth.password # ""
     /\ (NewRequest # <<>> /\ NewRequest[1].op = "register") =>
          /\ trim(auth.firstName) # <<>> /\ trim(auth.lastName) # <<>>
          /\ auth.email # "" /\ auth.password # ""
          /\ Len(auth.password) >= MIN_PASSWORD
          /\ auth.password = auth.confirmPassword
     /\ SetsError =>
          /\ NewRequest = <<>>
          /\ auth'.dashboard = auth.dashboard
     /\ ((handleLogin /\ LoginError # "") \/ (handleRegister /\ RegisterError # "")) =>
          /\ auth'.localError # ""
          /\ auth'.requests = auth.requests
          /\ auth'.dashboard = auth.dashboard
     /\ auth'.dashboard # auth.dashboard =>
          /\ auth'.dashboard = auth.dashboard + 1
          /\ ReturnedOk({"login", "register"})]_vars

\* a registration went through to the dashboard after a login that failed
C27_Witness ==
  /\ auth.dashboard = 1
  /\ Len(auth.requests) = 2
  /\ auth.requests[1].op = "login" /\ auth.requests[1].state = "failed"
  /\ auth.requests[2].op = "register" /\ auth.requests[2].state = "ok"
  /\ auth.requests[2].name = <<"B", " ", "B">>

Votes(st) == st.trueCount + st.falseCount

PlaceIn(list, p) == CHOOSE i \in 1..Len(list) : list[i] = p

\* C29: in the community feed every pinned post precedes every unpinned post
\* and posts of the same pinned status are ordered newest first; the
\* 'following' tab shows exactly the posts of that ordering whose author is
\* followed by the user or is the user, in the same relative order.
C29_FeedOrder ==
  LET s == sortedPosts
      f == filteredPosts
  IN  /\ Len(s) = Len(feed.posts)
      /\ \A i \in 1..Len(feed.posts) : Includes(s, feed.posts[i])
      /\ \A i, j \in 1..Len(s) :
           i < j =>
             /\ s[j].pinned => s[i].pinned
             /\ s[i].pinned = s[j].pinned => s[i].createdAt >= s[j].createdAt
      /\ feed.activeTab = "discover" => f = s
      /\ feed.activeTab = "following" =>
           /\ \A i \in 1..Len(s) :
                Includes(f, s[i]) <=>
                  (Includes(feed.following, s[i].userId) \/ feed.user = Some(s[i].userId))
           /\ \A i, j \in 1..Len(f) : i < j => PlaceIn(s, f[i]) < PlaceIn(s, f[j])

\* the following tab of a user who follows u2: the newest post is unpinned and
\* by a stranger, the oldest is pinned and by u2, the third is the user's own
C29_Witness ==
  /\ feed.activeTab = "following" /\ feed.user = Some("me")
  /\ feed.following = <<"u2">>
  /\ Len(feed.posts) = 3
  /\ feed.posts[1] = [id |-> 1, userId |-> "u3", pinned |-> FALSE, createdAt |-> 2]
  /\ feed.posts[2] = [id |-> 2, userId |-> "me", pinned |-> FALSE, createdAt |-> 1]
  /\ feed.posts[3] = [id |-> 3, userId |-> "u2", pinned |-> TRUE, createdAt |-> 1]
  /\ filteredPosts = <<feed.posts[3], feed.posts[2]>>

ParentsListing(c) ==
  {i \in 1..Len(rootComments) :
     \E j \in 1..Len(getReplies(rootComments[i].id, thread.comments)) :
       getReplies(rootComments[i].id, thread.comments)[j] = c}

\* C30: the reply encoding round-trips: a comment handleReply creates for the
\* parent id P (without ':') and the text T is recognised as a reply,
\* getParentId gives P and getReplyContent gives T, for every T, text with ':'
\* included; a comment is a root comment exactly when it is not a reply, so
\* each reply is listed under exactly one parent.
C30_ReplyRoundTrip ==
  \A n \in 1..Len(thread.comments) :
    LET c == thread.comments[n] IN
      /\ c.made # None =>
           /\ isReply(c)
           /\ getParentId(c) = Some(c.made[1].parent)
           /\ getReplyContent(c) = c.made[1].text
      /\ (\E i \in 1..Len(rootComments) : rootComments[i] = c) <=> ~isReply(c)
      /\ isReply(c) => Cardinality(ParentsListing(c)) = 1

====
